---------------------------- MODULE Spec2Model ----------------------------
(***************************************************************************)
(* LibraryFlow: the reservation / availability bookkeeping, the admin book *)
(* endpoints and the dashboard statistics of server/routes.ts over the     *)
(* storage layer (DatabaseStorage) and the schema (shared/schema.ts).      *)
(*                                                                         *)
(* A request handler is an async function: every `await storage.x(...)`    *)
(* is a point where other requests run.  One action of the model is one    *)
(* database operation together with the synchronous code that follows it   *)
(* up to the next await (or to the response).  A request arrives with its  *)
(* first database operation.  Every database operation may reject; the     *)
(* handler's catch block then answers 500.                                 *)
(*                                                                         *)
(* Time is counted in days.  Money is counted in cents.                    *)
(***************************************************************************)
EXTENDS Integers, Sequences, FiniteSets, TLC

(***************************************************************************)
(* Bounds of the model.                                                    *)
(***************************************************************************)
MaxReservations == 3       \* reservations requested while the table is shorter
MaxBooks == 2              \* ids the books serial hands out
MaxNow == 15               \* last day the clock reaches
MaxReserveDay == 1         \* last day on which a reservation is requested

(***************************************************************************)
(* Program constants.                                                      *)
(***************************************************************************)
LoanDays == 14             \* routes.ts:159
DueSoonDays == 3           \* storage.ts:335 (src/unnamed/part_006)

\* Two request slots: any two requests can overlap at any of their awaits.
Procs == {1, 2}
Users == {"alice", "root"}
\* The subjects of the sessions: the users, and one whose user row is gone.
Callers == Users \cup {"ghost"}
NoTime == -1               \* a NULL timestamp column
NoId == 0                  \* no row (serial ids start at 1)

VARIABLES
    now,            \* the clock, in days
    users,          \* users table: id -> [role, outstandingFines]
    books,          \* books table: id -> [totalCopies, availableCopies]
    nextBookId,     \* the books.id serial
    reservations,   \* reservations table: row i has id i (serial)
    fines,          \* fines table
    req,            \* per request slot: the handler's position and locals
    resp,           \* the response sent by the last step, if it sent one
    overlapped,     \* history: two requests have been in flight at once
    session,        \* the client's session: req.session.user, or none
    payments,       \* payments table: row i has id i (serial)
    intents,        \* the payment processor: payment intent id -> status
    config          \* the environment read at startup

vars == <<now, users, books, nextBookId, reservations, fines, req, resp, overlapped,
          session, payments, intents, config>>

db == <<users, books, nextBookId, reservations, fines>>

\* What the catalogue and reservation handlers never touch.
ext == <<session, payments, intents, config>>

(***************************************************************************)
(* Request slots and responses.                                            *)
(***************************************************************************)
NoBook == [found |-> FALSE, availableCopies |-> 0]

NoUser == [found |-> FALSE, role |-> "none", outstandingFines |-> 0]

NoStats == [activeReservations |-> 0, availableBooks |-> 0, dueSoon |-> 0,
            outstandingFines |-> 0]

NoUpdates == [nothing |-> 0]

\* The locals of the payment handlers: payment.amount and the balance read.
NoPayment == [amount |-> 0, balance |-> 0]

IdleReq ==
    [op |-> "none", pc |-> "idle", user |-> "alice", bookId |-> NoId,
     rid |-> NoId, book |-> NoBook, dueDate |-> NoTime, nres |-> 0,
     upd |-> NoUpdates, payment |-> NoPayment]

NoResp == [op |-> "none", code |-> 0, body |-> "none", stats |-> NoStats]

Free(p) == req[p].pc = "idle"

InFlight == {p \in Procs : ~Free(p)}

\* A request arrives in slot p; nres remembers the size of the reservations
\* table at that moment.
Arrive(op, u) ==
    [IdleReq EXCEPT !.op = op, !.user = u, !.nres = Len(reservations)]

\* Slot p awaits its next database operation as r.
Await(p, r) ==
    /\ req' = [req EXCEPT ![p] = r]
    /\ resp' = NoResp
    /\ overlapped' = (overlapped \/ InFlight \ {p} # {})

\* res.status(code).json(body): slot p answers and is free again.
Respond(p, op, code, body) ==
    /\ req' = [req EXCEPT ![p] = IdleReq]
    /\ resp' = [NoResp EXCEPT !.op = op, !.code = code, !.body = body]
    /\ UNCHANGED overlapped

\* The catch block of a handler: console.error and a 500.
Catch(p, op) == Respond(p, op, 500, "message")

(***************************************************************************)
(* Storage layer.                                                          *)
(***************************************************************************)
\* getUser: the row, or undefined.
GetUser(id) ==
    IF id \in DOMAIN users
    THEN [found |-> TRUE, role |-> users[id].role,
          outstandingFines |-> users[id].outstandingFines]
    ELSE NoUser

\* getBook: the row, or undefined.
GetBook(id) ==
    IF id \in DOMAIN books
    THEN [found |-> TRUE, availableCopies |-> books[id].availableCopies]
    ELSE NoBook

\* The foreign keys of the reservations table.
ReservationFkOk(row) == row.userId \in DOMAIN users /\ row.bookId \in DOMAIN books

\* An insert that keeps one active reservation per user and book.
CreateReservationOnce(data) ==
    IF \E i \in DOMAIN reservations :
           /\ reservations[i].userId = data.userId
           /\ reservations[i].bookId = data.bookId
           /\ reservations[i].status = "active"
    THEN reservations
    ELSE Append(reservations,
                [userId |-> data.userId, bookId |-> data.bookId,
                 status |-> data.status, reservedAt |-> now,
                 dueDate |-> data.dueDate, completedAt |-> NoTime])

\* createReservation: insert ... returning; reservedAt defaults to now().
CreateReservation(data) ==
    Append(reservations,
           [userId |-> data.userId, bookId |-> data.bookId,
            status |-> data.status, reservedAt |-> now,
            dueDate |-> data.dueDate, completedAt |-> NoTime])

\* A decrement relative to the stored value instead of an absolute write.
UpdateBookAvailabilityRelative(id, available) ==
    IF id \in DOMAIN books
    THEN [books EXCEPT ![id].availableCopies = books[id].availableCopies - 1]
    ELSE books

\* updateBookAvailability: an absolute write of the column.
UpdateBookAvailability(id, available) ==
    IF id \in DOMAIN books
    THEN [books EXCEPT ![id].availableCopies = available]
    ELSE books

\* update ... set(updates): the columns named by updates are overwritten.
SetColumns(row, updates) ==
    [f \in DOMAIN row |-> IF f \in DOMAIN updates THEN updates[f] ELSE row[f]]

\* updateReservation: update reservations set(updates) where id = id.
UpdateReservation(id, updates) ==
    IF id \in DOMAIN reservations
    THEN [reservations EXCEPT ![id] = SetColumns(reservations[id], updates)]
    ELSE reservations

(***************************************************************************)
(* POST /api/reservations                                                  *)
(***************************************************************************)
\* An availability check that is off by one: a book with no copy left passes.
IsAvailableOffByOne(book) == book.found /\ book.availableCopies >= 0

\* routes.ts:153  `!book || book.availableCopies <= 0`, negated.
IsAvailable(book) == book.found /\ book.availableCopies > 0

\* A one-week loan period.
DueDateOfWeek(t) == t + 7

\* routes.ts:158-159  dueDate = new Date(); setDate(getDate() + 14).
DueDateOf(t) == t + LoanDays

\* await storage.getBook(bookId); the availability check; the due date.
ReserveGetBook(p, u, b) ==
    /\ Free(p)
    /\ LET r0 == [Arrive("reserve", u) EXCEPT !.bookId = b]
           book == GetBook(b)
       IN  \/ Catch(p, "reserve")
           \/ /\ ~IsAvailable(book)
              /\ Respond(p, "reserve", 400, "message")
           \/ /\ IsAvailable(book)
              /\ Await(p, [r0 EXCEPT !.pc = "createReservation", !.book = book,
                                     !.dueDate = DueDateOf(now)])
    /\ UNCHANGED <<now, db>>
    /\ UNCHANGED ext

\* await storage.createReservation(reservationData)
ReserveCreate(p) ==
    /\ req[p].op = "reserve" /\ req[p].pc = "createReservation"
    /\ LET r == req[p]
           data == [userId |-> r.user, bookId |-> r.bookId,
                    dueDate |-> r.dueDate, status |-> "active"]
       IN  \/ /\ Catch(p, "reserve")
              /\ UNCHANGED reservations
           \/ /\ ReservationFkOk(data)
              /\ reservations' = CreateReservation(data)
              /\ Await(p, [r EXCEPT !.pc = "updateBookAvailability",
                                    !.rid = Len(reservations')])
    /\ UNCHANGED <<now, users, books, nextBookId, fines>>
    /\ UNCHANGED ext

\* A catch block that undoes the first write when the second rejects.
ReserveCatchCompensating(rows, rid) ==
    [i \in DOMAIN rows |-> IF i = rid THEN [rows[i] EXCEPT !.status = "cancelled"]
                                      ELSE rows[i]]

\* What the catch block leaves of the reservations table when the second
\* write rejects (routes.ts:174-177): it logs and answers 500.
ReserveCatch(rows, rid) == rows

\* await storage.updateBookAvailability(bookId, book.availableCopies - 1)
ReserveUpdateAvailability(p) ==
    /\ req[p].op = "reserve" /\ req[p].pc = "updateBookAvailability"
    /\ LET r == req[p]
       IN  \/ /\ Catch(p, "reserve")
              /\ reservations' = ReserveCatch(reservations, r.rid)
              /\ UNCHANGED books
           \/ /\ books' = UpdateBookAvailability(r.bookId, r.book.availableCopies - 1)
              /\ Respond(p, "reserve", 201, "reservation")
              /\ UNCHANGED reservations
    /\ UNCHANGED <<now, users, nextBookId, fines>>
    /\ UNCHANGED ext

(***************************************************************************)
(* PUT /api/reservations/:id                                               *)
(***************************************************************************)
\* The body the client sends to return a book (reservations.tsx:40-43).
ReturnBody == [status |-> "completed", completedAt |-> now]

\* Bodies that set the status column alone.
StatusBodies == {[status |-> s] : s \in {"active", "completed", "cancelled"}}

\* storage.ts:266-269  createFine: insert into fines ... returning.
CreateFine(fine) == Append(fines, fine)

\* A return handler that charges a fine for the reservation it updates.
PutReservationFining(p, u, id, updates) ==
    /\ Free(p)
    /\ \/ /\ Catch(p, "putReservation")
          /\ UNCHANGED <<reservations, fines>>
       \/ /\ reservations' = UpdateReservation(id, updates)
          /\ fines' = IF id \in DOMAIN reservations
                      THEN CreateFine([userId |-> u, amount |-> 100, status |-> "unpaid"])
                      ELSE fines
          /\ Respond(p, "putReservation", 200, IF id \in DOMAIN reservations THEN "reservation"
                                                          ELSE "empty")
    /\ UNCHANGED <<now, users, books, nextBookId>>
    /\ UNCHANGED ext

\* A return handler that gives the copy back: completing an active
\* reservation raises the book's availableCopies by one.
PutReservationRestoring(p, u, id, updates) ==
    /\ Free(p)
    /\ \/ /\ Catch(p, "putReservation")
          /\ UNCHANGED <<reservations, books>>
       \/ /\ reservations' = UpdateReservation(id, updates)
          /\ books' = IF /\ id \in DOMAIN reservations
                         /\ reservations[id].status = "active"
                         /\ reservations'[id].status = "completed"
                         /\ reservations[id].bookId \in DOMAIN books
                      THEN [books EXCEPT ![reservations[id].bookId].availableCopies = @ + 1]
                      ELSE books
          /\ Respond(p, "putReservation", 200, IF id \in DOMAIN reservations THEN "reservation"
                                                          ELSE "empty")
    /\ UNCHANGED <<now, users, nextBookId, fines>>
    /\ UNCHANGED ext

\* An update handler that serves the reservation's owner only.
PutReservationOwned(p, u, id, updates) ==
    /\ Free(p)
    /\ IF id \in DOMAIN reservations
       THEN IF reservations[id].userId # u
            THEN /\ Respond(p, "putReservation", 403, "message")
                 /\ UNCHANGED reservations
            ELSE \/ /\ Catch(p, "putReservation")
                    /\ UNCHANGED reservations
                 \/ /\ reservations' = UpdateReservation(id, updates)
                    /\ Respond(p, "putReservation", 200, "reservation")
       ELSE \/ /\ Catch(p, "putReservation")
               /\ UNCHANGED reservations
            \/ /\ Respond(p, "putReservation", 200, "empty")
               /\ UNCHANGED reservations
    /\ UNCHANGED <<now, users, books, nextBookId, fines>>
    /\ UNCHANGED ext

\* An update handler that validates the transition: a reservation that is
\* no longer active cannot be made active again.
PutReservationChecked(p, u, id, updates) ==
    /\ Free(p)
    /\ IF id \in DOMAIN reservations
       THEN IF /\ reservations[id].status # "active"
               /\ "status" \in DOMAIN updates
               /\ SetColumns(reservations[id], updates).status = "active"
            THEN /\ Respond(p, "putReservation", 400, "message")
                 /\ UNCHANGED reservations
            ELSE \/ /\ Catch(p, "putReservation")
                    /\ UNCHANGED reservations
                 \/ /\ reservations' = UpdateReservation(id, updates)
                    /\ Respond(p, "putReservation", 200, "reservation")
       ELSE \/ /\ Catch(p, "putReservation")
               /\ UNCHANGED reservations
            \/ /\ Respond(p, "putReservation", 200, "empty")
               /\ UNCHANGED reservations
    /\ UNCHANGED <<now, users, books, nextBookId, fines>>
    /\ UNCHANGED ext

\* await storage.updateReservation(parseInt(req.params.id), req.body)
PutReservation(p, u, id, updates) ==
    /\ Free(p)
    /\ \/ /\ Catch(p, "putReservation")
          /\ UNCHANGED reservations
       \/ /\ reservations' = UpdateReservation(id, updates)
          /\ Respond(p, "putReservation", 200, IF id \in DOMAIN reservations THEN "reservation"
                                                          ELSE "empty")
    /\ UNCHANGED <<now, users, books, nextBookId, fines>>
    /\ UNCHANGED ext

(***************************************************************************)
(* GET /api/dashboard/stats                                                *)
(***************************************************************************)
\* SUM(available_copies) over the books table.
RECURSIVE SumAvailable(_)
SumAvailable(ids) ==
    IF ids = {} THEN 0
    ELSE LET b == CHOOSE x \in ids : TRUE
         IN  books[b].availableCopies + SumAvailable(ids \ {b})

\* A due-soon window without its lower end: overdue rows count too.
DueSoonNoLowerEnd(row, t) == row.dueDate <= t + DueSoonDays

\* storage.ts:335  dueDate BETWEEN NOW() AND NOW() + INTERVAL '3 days'
DueSoon(row, t) == t <= row.dueDate /\ row.dueDate <= t + DueSoonDays

\* The stored balance of the user row.
StoredBalance(userId) == GetUser(userId).outstandingFines

\* storage.ts:319-322  COUNT(*) where userId = .. and status = 'active'
RECURSIVE CountActive(_, _)
CountActive(rows, userId) ==
    IF rows = <<>> THEN 0
    ELSE (IF Head(rows).userId = userId /\ Head(rows).status = "active"
          THEN 1 ELSE 0) + CountActive(Tail(rows), userId)

\* storage.ts:328-337  COUNT(*) where userId = .. and status = 'active'
\* and dueDate BETWEEN NOW() AND NOW() + INTERVAL '3 days'
RECURSIVE CountDueSoon(_, _, _)
CountDueSoon(rows, userId, t) ==
    IF rows = <<>> THEN 0
    ELSE (IF /\ Head(rows).userId = userId
             /\ Head(rows).status = "active"
             /\ DueSoon(Head(rows), t)
          THEN 1 ELSE 0) + CountDueSoon(Tail(rows), userId, t)

\* getTotalFines: COALESCE(SUM(amount), 0) of the user's fines with
\* status 'unpaid'.
RECURSIVE GetTotalFinesOf(_, _)
GetTotalFinesOf(rows, userId) ==
    IF rows = <<>> THEN 0
    ELSE (IF Head(rows).userId = userId /\ Head(rows).status = "unpaid"
          THEN Head(rows).amount ELSE 0) + GetTotalFinesOf(Tail(rows), userId)

GetTotalFines(userId) == GetTotalFinesOf(fines, userId)

\* getDashboardStats
GetDashboardStats(userId) ==
    [activeReservations |-> CountActive(reservations, userId),
     availableBooks |-> SumAvailable(DOMAIN books),
     dueSoon |-> CountDueSoon(reservations, userId, now),
     outstandingFines |-> GetTotalFines(userId)]

\* The handler: the four queries of getDashboardStats run on one state of
\* the database (no other request is in flight in the specification that
\* uses it), then res.json(stats).
DashboardStats(p, u) ==
    /\ Free(p)
    /\ \/ Catch(p, "stats")
       \/ /\ req' = [req EXCEPT ![p] = IdleReq]
          /\ resp' = [op |-> "stats", code |-> 200, body |-> "stats",
                      stats |-> GetDashboardStats(u)]
          /\ UNCHANGED overlapped
    /\ UNCHANGED <<now, db>>
    /\ UNCHANGED ext

(***************************************************************************)
(* The clock.  A request is short against the clock's unit: no day passes  *)
(* while one is in flight.                                                 *)
(***************************************************************************)
Tick ==
    /\ now < MaxNow
    /\ InFlight = {}
    /\ now' = now + 1
    /\ resp' = NoResp
    /\ UNCHANGED <<db, req, overlapped>>
    /\ UNCHANGED ext

(***************************************************************************)
(* Admin endpoints: POST/PUT/DELETE /api/books, GET /api/admin/users,      *)
(* GET /api/admin/reservations.                                            *)
(***************************************************************************)
AdminOps == {"createBook", "updateBook", "deleteBook", "listUsers",
             "listReservations"}

\* A role check that lets every known user through.
IsAdminAnyUser(user) == user.found

\* `user?.role !== 'admin'`, negated.
IsAdmin(user) == user.found /\ user.role = "admin"

\* A body insertBookSchema rejects (title, author and genre are missing).
InvalidBookBody == [totalCopies |-> 1, availableCopies |-> 1]

\* Bodies insertBookSchema accepts; the integer columns are unconstrained.
ValidBookBodies ==
    {[title |-> "t", totalCopies |-> 1, availableCopies |-> 1],
     [title |-> "t", totalCopies |-> 1, availableCopies |-> 2]}

\* A schema that also bounds the available copies by the total.
BookSchemaOkBounded(data) ==
    /\ "title" \in DOMAIN data
    /\ data.availableCopies >= 0
    /\ data.availableCopies <= data.totalCopies

\* insertBookSchema.parse: the notNull columns without a default are required.
BookSchemaOk(data) == "title" \in DOMAIN data

\* Bodies of PUT /api/books/:id (passed to the storage layer unvalidated).
BookUpdateBodies ==
    {[availableCopies |-> -1], [availableCopies |-> 3]}

\* await storage.getUser(req.user.claims.sub); the role check; for
\* POST /api/books, insertBookSchema.parse(req.body).
AdminGetUser(p, u, op, id, data) ==
    /\ Free(p)
    /\ op = "createBook" => nextBookId <= MaxBooks
    /\ \/ Catch(p, op)
       \/ /\ ~IsAdmin(GetUser(u))
          /\ Respond(p, op, 403, "message")
       \/ /\ IsAdmin(GetUser(u))
          /\ op = "createBook" /\ ~BookSchemaOk(data)
          /\ Respond(p, op, 400, "message")
       \/ /\ IsAdmin(GetUser(u))
          /\ op = "createBook" => BookSchemaOk(data)
          /\ Await(p, [Arrive(op, u) EXCEPT !.pc = op, !.bookId = id, !.upd = data])
    /\ UNCHANGED <<now, db>>
    /\ UNCHANGED ext

\* await storage.createBook(bookData)
AdminCreateBook(p) ==
    /\ req[p].pc = "createBook"
    /\ \/ /\ Catch(p, "createBook")
          /\ UNCHANGED <<books, nextBookId>>
       \/ /\ books' = [b \in DOMAIN books \cup {nextBookId} |->
                          IF b = nextBookId
                          THEN [totalCopies |-> req[p].upd.totalCopies,
                                availableCopies |-> req[p].upd.availableCopies]
                          ELSE books[b]]
          /\ nextBookId' = nextBookId + 1
          /\ Respond(p, "createBook", 201, "book")
    /\ UNCHANGED <<now, users, reservations, fines>>
    /\ UNCHANGED ext

\* await storage.updateBook(parseInt(req.params.id), req.body)
AdminUpdateBook(p) ==
    /\ req[p].pc = "updateBook"
    /\ LET id == req[p].bookId
       IN  \/ /\ Catch(p, "updateBook")
              /\ UNCHANGED books
           \/ /\ books' = IF id \in DOMAIN books
                          THEN [books EXCEPT ![id] = SetColumns(books[id], req[p].upd)]
                          ELSE books
              /\ Respond(p, "updateBook", 200, IF id \in DOMAIN books THEN "book" ELSE "empty")
    /\ UNCHANGED <<now, users, nextBookId, reservations, fines>>
    /\ UNCHANGED ext

\* await storage.deleteBook(parseInt(req.params.id)); a book that a
\* reservation row references cannot be deleted (foreign key).
AdminDeleteBook(p) ==
    /\ req[p].pc = "deleteBook"
    /\ LET id == req[p].bookId
           Referenced == \E i \in DOMAIN reservations : reservations[i].bookId = id
       IN  \/ /\ Catch(p, "deleteBook")
              /\ UNCHANGED books
           \/ /\ ~Referenced
              /\ books' = [b \in DOMAIN books \ {id} |-> books[b]]
              /\ Respond(p, "deleteBook", 204, "empty")
    /\ UNCHANGED <<now, users, nextBookId, reservations, fines>>
    /\ UNCHANGED ext

\* await storage.getAllUsers() / await storage.getActiveReservations()
AdminList(p) ==
    /\ req[p].pc \in {"listUsers", "listReservations"}
    /\ \/ Catch(p, req[p].pc)
       \/ Respond(p, req[p].pc, 200, IF req[p].pc = "listUsers" THEN "users" ELSE "reservations")
    /\ UNCHANGED <<now, db>>
    /\ UNCHANGED ext

(***************************************************************************)
(* Initial state: a seeded database, no request in flight.                 *)
(***************************************************************************)
\* No session (req.session.user is undefined).
NoSession == [sub |-> "none", exp |-> NoTime]

\* DATABASE_URL and STRIPE_SECRET_KEY are both set.
FullConfig == [database |-> TRUE, stripe |-> TRUE]

\* Nobody is logged in, no payment was ever requested.
NoExt ==
    /\ session = NoSession
    /\ payments = <<>>
    /\ intents = <<>>
    /\ config = FullConfig

SeedUsers ==
    [u \in Users |-> [role |-> IF u = "root" THEN "admin" ELSE "user",
                      outstandingFines |-> 0]]

SeedBooks ==
    [b \in {1, 2} |-> [totalCopies |-> b, availableCopies |-> b]]

Init ==
    /\ now = 0
    /\ users = SeedUsers
    /\ books = SeedBooks
    /\ nextBookId = 3
    /\ reservations = <<>>
    /\ fines = <<>>
    /\ req = [p \in Procs |-> IdleReq]
    /\ resp = NoResp
    /\ overlapped = FALSE
    /\ NoExt

\* Book b cannot be reserved: it is missing or has no copy available.
Unavailable(b) == IF b \in DOMAIN books THEN books[b].availableCopies <= 0 ELSE TRUE

\* The reservations table stays bounded: a request for a book that can be
\* reserved is issued only while the table holds fewer than max rows.
Insertable(max, b) == IF Unavailable(b) THEN TRUE ELSE Len(reservations) < max

(***************************************************************************)
(* Spec: the reservation requests of one user, interleaved at their        *)
(* awaits.                                                                 *)
(***************************************************************************)
ReservationStep(p) ==
    \/ \E b \in 1..2 : Insertable(MaxReservations, b) /\ ReserveGetBook(p, "alice", b)
    \/ ReserveCreate(p)
    \/ ReserveUpdateAvailability(p)
    \/ \E id \in 1..MaxReservations : PutReservation(p, "alice", id, ReturnBody)

Next == \E p \in Procs : ReservationStep(p)

Spec == Init /\ [][Next]_vars

(***************************************************************************)
(* SpecSeq: requests are served one at a time, the clock runs, and the     *)
(* database is seeded with a balance and with or without fine rows.        *)
(***************************************************************************)
MaxSeqReservations == 1

SeedFines ==
    {<<>>,
     <<[userId |-> "alice", amount |-> 500, status |-> "unpaid"],
       [userId |-> "alice", amount |-> 300, status |-> "paid"],
       [userId |-> "root", amount |-> 200, status |-> "unpaid"]>>}

InitSeq ==
    /\ now = 0
    /\ users = [SeedUsers EXCEPT !["alice"].outstandingFines = 500]
    /\ books = SeedBooks
    /\ nextBookId = 3
    /\ reservations = <<>>
    /\ fines \in SeedFines
    /\ req = [p \in Procs |-> IdleReq]
    /\ resp = NoResp
    /\ overlapped = FALSE
    /\ NoExt

SeqStep(p) ==
    \/ \E u \in Users, b \in {2, 3} :
           /\ now <= MaxReserveDay
           /\ Insertable(MaxSeqReservations, b)
           /\ ReserveGetBook(p, u, b)
    \/ ReserveCreate(p)
    \/ ReserveUpdateAvailability(p)
    \/ \E id \in 1..MaxSeqReservations, updates \in StatusBodies :
           PutReservation(p, "alice", id, updates)
    \/ \E u \in Users : DashboardStats(p, u)

NextSeq == Tick \/ SeqStep(1)

SpecSeq == InitSeq /\ [][NextSeq]_vars

(***************************************************************************)
(* SpecAdmin: the admin endpoints and reservation requests, served one at  *)
(* a time, over a catalogue that starts with one book.                     *)
(***************************************************************************)
MaxAdminReservations == 1

AdminBookIds == 1..MaxBooks

\* The requests of the admin endpoints: operation, :id, body.
AdminRequests ==
    {<<"createBook", NoId, data>> : data \in ValidBookBodies \cup {InvalidBookBody}}
    \cup {<<"updateBook", id, data>> : id \in AdminBookIds, data \in BookUpdateBodies}
    \cup {<<"deleteBook", id, NoUpdates>> : id \in AdminBookIds}
    \cup {<<op, NoId, NoUpdates>> : op \in {"listUsers", "listReservations"}}

InitAdmin ==
    /\ now = 0
    /\ users = SeedUsers
    /\ books = [b \in {1} |-> [totalCopies |-> 1, availableCopies |-> 1]]
    /\ nextBookId = 2
    /\ reservations = <<>>
    /\ fines = <<>>
    /\ req = [p \in Procs |-> IdleReq]
    /\ resp = NoResp
    /\ overlapped = FALSE
    /\ NoExt

AdminReserveStep(p) ==
    \/ \E b \in AdminBookIds :
           Insertable(MaxAdminReservations, b) /\ ReserveGetBook(p, "alice", b)
    \/ ReserveCreate(p)
    \/ ReserveUpdateAvailability(p)

AdminStep(p) ==
    \/ \E u \in Callers :
           \/ \E data \in ValidBookBodies \cup {InvalidBookBody} :
                  AdminGetUser(p, u, "createBook", NoId, data)
           \/ \E id \in AdminBookIds, data \in BookUpdateBodies :
                  AdminGetUser(p, u, "updateBook", id, data)
           \/ \E id \in AdminBookIds :
                  AdminGetUser(p, u, "deleteBook", id, NoUpdates)
           \/ \E op \in {"listUsers", "listReservations"} :
                  AdminGetUser(p, u, op, NoId, NoUpdates)
    \/ AdminCreateBook(p)
    \/ AdminUpdateBook(p)
    \/ AdminDeleteBook(p)
    \/ AdminList(p)

\* One request at a time: a reservation request or an admin request.
NextAdmin == AdminReserveStep(1) \/ AdminStep(1)

SpecAdmin == InitAdmin /\ [][NextAdmin]_vars

(***************************************************************************)
(* Payments: POST /api/create-payment-intent, POST /api/payment/confirm.   *)
(* The processor (Stripe) holds one status per payment intent; the client  *)
(* pays there, outside this server.                                        *)
(***************************************************************************)
MaxIntents == 2            \* payment intents the processor is asked for

\* Amounts a client asks to pay, in cents.
Amounts == {300, 700}

\* A payment handler that goes on without a processor.
StripeEnabledAlways(cfg) == TRUE

\* routes.ts:14-22  stripe is null unless STRIPE_SECRET_KEY is set.
StripeEnabled(cfg) == cfg.stripe

\* Math.max(0, x)
Max0(x) == IF x > 0 THEN x ELSE 0

\* createPayment: insert ... returning; the row references a user.
CreatePayment(data) ==
    Append(payments, [userId |-> data.userId, amount |-> data.amount,
                      stripePaymentIntentId |-> data.stripePaymentIntentId,
                      status |-> data.status, completedAt |-> NoTime])

\* updatePayment: update payments set(updates) where id = id.
UpdatePayment(id, updates) ==
    IF id \in DOMAIN payments
    THEN [payments EXCEPT ![id] = SetColumns(payments[id], updates)]
    ELSE payments

\* A lookup that finds only payments still pending.
FindPaymentPending(userId, paymentIntentId) ==
    LET found == {i \in DOMAIN payments :
                     /\ payments[i].userId = userId
                     /\ payments[i].stripePaymentIntentId = paymentIntentId
                     /\ payments[i].status = "pending"}
    IN  IF found = {} THEN NoId
        ELSE CHOOSE i \in found : \A j \in found : j <= i

\* A lookup over the payments of every user.
FindPaymentAnyUser(userId, paymentIntentId) ==
    LET found == {i \in DOMAIN payments :
                     payments[i].stripePaymentIntentId = paymentIntentId}
    IN  IF found = {} THEN NoId
        ELSE CHOOSE i \in found : \A j \in found : j <= i

\* getUserPayments(userId), then payments.find(p => p.stripePaymentIntentId
\* === paymentIntentId): the newest matching row of the user, or none.
FindPayment(userId, paymentIntentId) ==
    LET found == {i \in DOMAIN payments :
                     /\ payments[i].userId = userId
                     /\ payments[i].stripePaymentIntentId = paymentIntentId}
    IN  IF found = {} THEN NoId
        ELSE CHOOSE i \in found : \A j \in found : j <= i

\* updateUser(userId, {outstandingFines}): the row, if there is one.
UpdateUserBalance(userId, balance) ==
    IF userId \in DOMAIN users
    THEN [users EXCEPT ![userId].outstandingFines = balance]
    ELSE users

\* A balance that is lowered without a floor.
NewBalanceUnclamped(balance, amount) == balance - amount

\* routes.ts:292  Math.max(0, parseFloat(balance) - parseFloat(amount))
NewBalance(balance, amount) == Max0(balance - amount)

\* POST /api/create-payment-intent: the 503 without a processor, else
\* await stripe.paymentIntents.create(...).
CreatePaymentIntent(p, u, amount) ==
    /\ Free(p)
    /\ \/ /\ ~StripeEnabled(config)
          /\ Respond(p, "createPaymentIntent", 503, "message")
          /\ UNCHANGED intents
       \/ /\ StripeEnabled(config)
          /\ Catch(p, "createPaymentIntent")
          /\ UNCHANGED intents
       \/ /\ StripeEnabled(config)
          /\ Len(intents) < MaxIntents
          /\ intents' = Append(intents, "requires_payment_method")
          /\ Await(p, [Arrive("createPaymentIntent", u) EXCEPT
                          !.pc = "createPayment", !.rid = Len(intents'),
                          !.payment = [NoPayment EXCEPT !.amount = amount]])
    /\ UNCHANGED <<now, db, session, payments, config>>

\* await storage.createPayment({userId, amount, stripePaymentIntentId,
\* status: "pending"}), then res.json({clientSecret}).
CreatePaymentRow(p) ==
    /\ req[p].op = "createPaymentIntent" /\ req[p].pc = "createPayment"
    /\ LET r == req[p]
       IN  \/ /\ Catch(p, "createPaymentIntent")
              /\ UNCHANGED payments
           \/ /\ r.user \in DOMAIN users
              /\ payments' = CreatePayment([userId |-> r.user, amount |-> r.payment.amount,
                                            stripePaymentIntentId |-> r.rid,
                                            status |-> "pending"])
              /\ Respond(p, "createPaymentIntent", 200, "clientSecret")
    /\ UNCHANGED <<now, db, session, intents, config>>

\* The client pays at the processor: the intent succeeds there.
ProcessorSucceeds(i) ==
    /\ i \in DOMAIN intents
    /\ intents[i] = "requires_payment_method"
    /\ InFlight = {}
    /\ intents' = [intents EXCEPT ![i] = "succeeded"]
    /\ resp' = NoResp
    /\ UNCHANGED <<now, db, req, overlapped, session, payments, config>>

\* A confirmation that asks the processor first: stripe.paymentIntents
\* .retrieve(id).status must be "succeeded".
ConfirmableAtProcessor(paymentIntentId) ==
    /\ paymentIntentId \in DOMAIN intents
    /\ intents[paymentIntentId] = "succeeded"

\* What POST /api/payment/confirm asks of the processor before it marks the
\* payment completed (routes.ts:275-287): nothing.
Confirmable(paymentIntentId) == TRUE

\* POST /api/payment/confirm: the 503 without a processor, else
\* await storage.getUserPayments(userId) and payments.find(...).
ConfirmPayment(p, u, paymentIntentId) ==
    /\ Free(p)
    /\ LET id == FindPayment(u, paymentIntentId)
       IN  \/ /\ ~StripeEnabled(config)
              /\ Respond(p, "confirmPayment", 503, "message")
           \/ /\ StripeEnabled(config)
              /\ Catch(p, "confirmPayment")
           \/ /\ StripeEnabled(config)
              /\ id = NoId \/ ~Confirmable(paymentIntentId)
              /\ Respond(p, "confirmPayment", 200, "success")
           \/ /\ StripeEnabled(config)
              /\ id # NoId /\ Confirmable(paymentIntentId)
              /\ Await(p, [Arrive("confirmPayment", u) EXCEPT
                              !.pc = "updatePayment", !.rid = id,
                              !.payment = [NoPayment EXCEPT
                                              !.amount = payments[id].amount]])
    /\ UNCHANGED <<now, db, ext>>

\* await storage.updatePayment(payment.id, {status: "completed",
\* completedAt: new Date()})
ConfirmUpdatePayment(p) ==
    /\ req[p].op = "confirmPayment" /\ req[p].pc = "updatePayment"
    /\ \/ /\ Catch(p, "confirmPayment")
          /\ UNCHANGED payments
       \/ /\ payments' = UpdatePayment(req[p].rid, [status |-> "completed",
                                                    completedAt |-> now])
          /\ Await(p, [req[p] EXCEPT !.pc = "getUser"])
    /\ UNCHANGED <<now, db, session, intents, config>>

\* const user = await storage.getUser(userId); if (user) { newBalance }
ConfirmGetUser(p) ==
    /\ req[p].op = "confirmPayment" /\ req[p].pc = "getUser"
    /\ LET user == GetUser(req[p].user)
       IN  \/ Catch(p, "confirmPayment")
           \/ /\ ~user.found
              /\ Respond(p, "confirmPayment", 200, "success")
           \/ /\ user.found
              /\ Await(p, [req[p] EXCEPT !.pc = "updateUser",
                                         !.payment.balance = user.outstandingFines])
    /\ UNCHANGED <<now, db, ext>>

\* await storage.updateUser(userId, {outstandingFines: newBalance}), then
\* res.json({success: true}).
ConfirmUpdateUser(p) ==
    /\ req[p].op = "confirmPayment" /\ req[p].pc = "updateUser"
    /\ \/ /\ Catch(p, "confirmPayment")
          /\ UNCHANGED users
       \/ /\ users' = UpdateUserBalance(req[p].user,
                                        NewBalance(req[p].payment.balance,
                                                   req[p].payment.amount))
          /\ Respond(p, "confirmPayment", 200, "success")
    /\ UNCHANGED <<now, books, nextBookId, reservations, fines, ext>>

(***************************************************************************)
(* SpecPay: the payment requests of the users, served one at a time, with  *)
(* or without a processor key.                                             *)
(***************************************************************************)
\* A payment intent id the processor never issued.
UnknownIntent == MaxIntents + 1

InitPay ==
    /\ now = 0
    /\ users = [SeedUsers EXCEPT !["alice"].outstandingFines = 500]
    /\ books = SeedBooks
    /\ nextBookId = 3
    /\ reservations = <<>>
    /\ fines = <<>>
    /\ req = [p \in Procs |-> IdleReq]
    /\ resp = NoResp
    /\ overlapped = FALSE
    /\ session = NoSession
    /\ payments = <<>>
    /\ intents = <<>>
    /\ config \in {[database |-> TRUE, stripe |-> k] : k \in BOOLEAN}

PayStep(p) ==
    \/ \E u \in Users, amount \in Amounts : CreatePaymentIntent(p, u, amount)
    \/ CreatePaymentRow(p)
    \/ \E u \in Users, i \in 1..UnknownIntent : ConfirmPayment(p, u, i)
    \/ ConfirmUpdatePayment(p)
    \/ ConfirmGetUser(p)
    \/ ConfirmUpdateUser(p)

NextPay == PayStep(1) \/ \E i \in 1..MaxIntents : ProcessorSucceeds(i)

SpecPay == InitPay /\ [][NextPay]_vars

(***************************************************************************)
(* Demo authentication (simpleAuth): POST /api/login, GET /api/logout, the *)
(* isAuthenticated middleware, and the routes behind it.                   *)
(***************************************************************************)
SessionDays == 7           \* simpleAuth.ts: exp = now + 7 * 24 * 60 * 60

MaxAuthNow == 8            \* last day the clock reaches in SpecAuth
MaxLoginDay == 0           \* last day on which the client logs in
MaxAuthReservations == 1   \* reservations requested in SpecAuth

DemoUser == "demo-user-123"

\* upsertUser: insert, or on conflict update the columns given; the role and
\* the balance are not among them and take their defaults on insert.
UpsertUser(id) ==
    [u \in DOMAIN users \cup {id} |->
        IF u \in DOMAIN users THEN users[u]
        ELSE [role |-> "user", outstandingFines |-> 0]]

\* A session whose expiry moves with every login but is a day short.
SessionOfShort(sub, t) == [sub |-> sub, exp |-> t + SessionDays - 1]

\* req.session.user = {claims: {sub, ..., exp: now + 7 days}}
SessionOf(sub, t) == [sub |-> sub, exp |-> t + SessionDays]

\* POST /api/login: await storage.upsertUser(demo user), set the session.
Login(p) ==
    /\ Free(p)
    /\ \/ /\ Catch(p, "login")
          /\ UNCHANGED <<users, session>>
       \/ /\ users' = UpsertUser(DemoUser)
          /\ session' = SessionOf(DemoUser, now)
          /\ Respond(p, "login", 200, "success")
    /\ UNCHANGED <<now, books, nextBookId, reservations, fines, payments, intents, config>>

\* GET /api/logout: req.session.destroy(...)
Logout(p) ==
    /\ Free(p)
    /\ session' = NoSession
    /\ Respond(p, "logout", 200, "success")
    /\ UNCHANGED <<now, db, payments, intents, config>>

\* GET /api/login: simpleAuth registers no such route; the request falls
\* through to the static files and the catch-all, which send index.html.
GetLoginPage(p) ==
    /\ Free(p)
    /\ Respond(p, "getLogin", 200, "index.html")
    /\ UNCHANGED <<now, db, ext>>

\* A middleware that lets a session through whatever its expiry.
AuthVerdictNoExpiry(s, t) ==
    IF s = NoSession THEN "Unauthorized" ELSE "next"

\* isAuthenticated: 401 without session user or claims, 401 when
\* now > claims.exp, else next().
AuthVerdict(s, t) ==
    IF s = NoSession THEN "Unauthorized"
    ELSE IF t > s.exp THEN "Session expired"
    ELSE "next"

\* The routes registered with authMiddleware in registerRoutes.
GuardedRoutes ==
    {"authUser", "createBook", "updateBook", "deleteBook", "getReservations",
     "reserve", "putReservation", "listUsers", "listReservations", "stats",
     "createPaymentIntent", "confirmPayment"}

\* The routes registered without it.
OpenRoutes == {"listBooks", "getBook", "login", "logout", "getLogin"}

\* Only the admin routes are behind the middleware.
HasAuthMiddlewareAdminOnly(route) == route \in AdminOps

HasAuthMiddleware(route) == route \in GuardedRoutes

\* GET /api/auth/user: await storage.getUser(userId); res.json(user)
AuthUser(p, u) ==
    /\ Free(p)
    /\ \/ Catch(p, "authUser")
       \/ Respond(p, "authUser", 200, IF GetUser(u).found THEN "user" ELSE "empty")
    /\ UNCHANGED <<now, db, ext>>

\* GET /api/reservations: await storage.getUserReservations(userId)
GetReservations(p, u) ==
    /\ Free(p)
    /\ \/ Catch(p, "getReservations")
       \/ Respond(p, "getReservations", 200, "reservations")
    /\ UNCHANGED <<now, db, ext>>

\* GET /api/books/:id: await storage.getBook(id); 404 without a row.
GetBookById(p, id) ==
    /\ Free(p)
    /\ \/ Catch(p, "getBook")
       \/ /\ ~GetBook(id).found
          /\ Respond(p, "getBook", 404, "message")
       \/ /\ GetBook(id).found
          /\ Respond(p, "getBook", 200, "book")
    /\ UNCHANGED <<now, db, ext>>

\* The requests a client sends to the guarded routes: route, :id, body.
GuardedRequests ==
    AdminRequests
    \cup {<<route, NoId, NoUpdates>> : route \in {"authUser", "getReservations", "stats"}}
    \cup {<<"reserve", b, NoUpdates>> : b \in {1, 2}}
    \cup {<<"putReservation", 1, ReturnBody>>}
    \cup {<<"createPaymentIntent", NoId, [amount |-> a]>> : a \in Amounts}
    \cup {<<"confirmPayment", 1, NoUpdates>>}

\* The requests a client sends to the open routes of simpleAuth and to
\* GET /api/books/:id.
OpenRequests ==
    {<<route, NoId, NoUpdates>> : route \in {"login", "logout", "getLogin"}}
    \cup {<<"getBook", b, NoUpdates>> : b \in {1, 2}}

\* The handler of the route, run for the session's user u.
Handler(p, u, r) ==
    \/ r[1] = "authUser" /\ AuthUser(p, u)
    \/ r[1] = "getReservations" /\ GetReservations(p, u)
    \/ r[1] = "stats" /\ DashboardStats(p, u)
    \/ /\ r[1] = "reserve"
       /\ Insertable(MaxAuthReservations, r[2])
       /\ ReserveGetBook(p, u, r[2])
    \/ r[1] = "putReservation" /\ PutReservation(p, u, r[2], r[3])
    \/ r[1] \in AdminOps /\ AdminGetUser(p, u, r[1], r[2], r[3])
    \/ r[1] = "createPaymentIntent" /\ CreatePaymentIntent(p, u, r[3].amount)
    \/ r[1] = "confirmPayment" /\ ConfirmPayment(p, u, r[2])
    \/ r[1] = "getBook" /\ GetBookById(p, r[2])
    \/ r[1] = "login" /\ now <= MaxLoginDay /\ Login(p)
    \/ r[1] = "logout" /\ Logout(p)
    \/ r[1] = "getLogin" /\ GetLoginPage(p)

\* The middleware answers 401 and the handler is not called.
Rejected(p, r) ==
    /\ Free(p)
    /\ HasAuthMiddleware(r[1])
    /\ AuthVerdict(session, now) # "next"
    /\ Respond(p, r[1], 401, AuthVerdict(session, now))
    /\ UNCHANGED <<now, db, ext>>

\* The handler is called: the route has no middleware, or it called next().
Admitted(p, r) ==
    /\ HasAuthMiddleware(r[1]) => AuthVerdict(session, now) = "next"
    /\ Handler(p, session.sub, r)

\* A request arrives at the server.
Route(p, r) == Rejected(p, r) \/ Admitted(p, r)

AuthTick == now < MaxAuthNow /\ Tick

(***************************************************************************)
(* SpecAuth: one client of a demo deployment (no processor key), its       *)
(* requests served one at a time while the clock runs.                     *)
(***************************************************************************)
InitAuth ==
    /\ now = 0
    /\ users = SeedUsers
    /\ books = [b \in {1} |-> [totalCopies |-> 1, availableCopies |-> 1]]
    /\ nextBookId = 2
    /\ reservations = <<>>
    /\ fines = <<>>
    /\ req = [p \in Procs |-> IdleReq]
    /\ resp = NoResp
    /\ overlapped = FALSE
    /\ session = NoSession
    /\ payments = <<>>
    /\ intents = <<>>
    /\ config = [database |-> TRUE, stripe |-> FALSE]

AuthStep(p) ==
    \/ \E r \in GuardedRequests \cup OpenRequests : Route(p, r)
    \/ ReserveCreate(p)
    \/ ReserveUpdateAvailability(p)

NextAuth == AuthTick \/ AuthStep(1)

SpecAuth == InitAuth /\ [][NextAuth]_vars

(***************************************************************************)
(* SpecRedirect: a client that is not logged in and does what the pages do *)
(* on a 401: it navigates to /api/login (window.location.href), again and  *)
(* again; it never posts to /api/login.                                    *)
(***************************************************************************)
NextRedirect ==
    \/ AuthTick
    \/ \E r \in GuardedRequests : Rejected(1, r)
    \/ \E b \in {1, 2} : GetBookById(1, b)
    \/ GetLoginPage(1)

SpecRedirect == InitAuth /\ [][NextRedirect]_vars /\ WF_vars(GetLoginPage(1))

(***************************************************************************)
(* GET /api/books: searchBooks.  A text is a sequence of characters; a     *)
(* nullable text column holds NullText when it is NULL.  Years are small   *)
(* numbers; a query parameter is the text the client sent, empty when the  *)
(* parameter is absent.                                                    *)
(***************************************************************************)
NullText == <<"NULL">>

NullYear == -1

\* ILIKE compares without regard to case.
Lower(c) == CASE c = "A" -> "a" [] c = "B" -> "b" [] OTHER -> c

\* LIKE: % matches any run of characters, _ matches any one character, any
\* other character matches itself.
RECURSIVE LikeMatch(_, _)
LikeMatch(pattern, text) ==
    IF pattern = <<>> THEN text = <<>>
    ELSE IF Head(pattern) = "%"
         THEN IF LikeMatch(Tail(pattern), text) THEN TRUE
              ELSE IF text = <<>> THEN FALSE
                   ELSE LikeMatch(pattern, Tail(text))
    ELSE IF text = <<>> THEN FALSE
    ELSE /\ Head(pattern) = "_" \/ Lower(Head(pattern)) = Lower(Head(text))
         /\ LikeMatch(Tail(pattern), Tail(text))

\* column ILIKE pattern; NULL when the column is NULL, and a row whose
\* condition is NULL is not selected.
ILike(column, pattern) ==
    IF column = NullText THEN FALSE ELSE LikeMatch(pattern, column)

\* `%${text}%`
Wrapped(text) == <<"%">> \o text \o <<"%">>

Digits == {"0", "1", "2", "3"}

DigitOf(c) == CASE c = "0" -> 0 [] c = "1" -> 1 [] c = "2" -> 2 [] c = "3" -> 3

\* parseInt(text): the number its leading digit spells, NaN without one.
ParseInt(text) ==
    IF text # <<>> /\ Head(text) \in Digits
    THEN [kind |-> "number", value |-> DigitOf(Head(text))]
    ELSE [kind |-> "NaN", value |-> 0]

Undefined == [kind |-> "undefined", value |-> 0]

\* routes.ts:60-61  yearFrom ? parseInt(yearFrom) : undefined
YearParam(text) == IF text # <<>> THEN ParseInt(text) ELSE Undefined

\* if (filters?.yearFrom): undefined, NaN and 0 are falsy.
Truthy(n) == n.kind = "number" /\ n.value # 0

\* The filters object GET /api/books builds from req.query.
FiltersOf(q) ==
    [genre |-> q.genre, author |-> q.author, availability |-> q.availability,
     yearFrom |-> YearParam(q.yearFrom), yearTo |-> YearParam(q.yearTo)]

\* and(...conditions) of searchBooks, for one row.
Conditions(row, query, filters) ==
    /\ query # <<>>
         => \/ ILike(row.title, Wrapped(query))
            \/ ILike(row.author, Wrapped(query))
            \/ ILike(row.isbn, Wrapped(query))
    /\ filters.genre # "" => row.genre = filters.genre
    /\ filters.author # <<>> => ILike(row.author, Wrapped(filters.author))
    /\ filters.availability = "available" => row.availableCopies > 0
    /\ filters.availability = "unavailable" => row.availableCopies = 0
    /\ Truthy(filters.yearFrom)
         => /\ row.publicationYear # NullYear
            /\ row.publicationYear >= filters.yearFrom.value
    /\ Truthy(filters.yearTo)
         => /\ row.publicationYear # NullYear
            /\ row.publicationYear <= filters.yearTo.value

\* searchBooks: the ids of the rows selected (their order is left out).
SearchBooks(query, filters) ==
    {b \in DOMAIN books : Conditions(books[b], query, filters)}

\* db is null without DATABASE_URL (db.ts:22-38): db.select() throws.
DbConnected(cfg) == cfg.database

\* GET /api/books: await storage.searchBooks(search || '', {...}), then
\* res.json(books); the catch block answers 500.
ListBooks(p, q) ==
    /\ Free(p)
    /\ IF DbConnected(config)
       THEN \/ /\ Catch(p, "listBooks")
            \/ /\ req' = [req EXCEPT ![p] = IdleReq]
               /\ resp' = [op |-> "listBooks", code |-> 200, body |-> "books",
                           query |-> q, rows |-> SearchBooks(q.search, FiltersOf(q))]
               /\ UNCHANGED overlapped
       ELSE Catch(p, "listBooks")
    /\ UNCHANGED <<now, db, ext>>

(***************************************************************************)
(* SpecSearch: catalogue searches, served one at a time, by a deployment   *)
(* with or without a database.                                             *)
(***************************************************************************)
SearchCatalogue ==
    <<[title |-> <<"A", "b">>, author |-> <<"b", "a">>, isbn |-> <<"1", "2">>,
       genre |-> "fiction", publicationYear |-> 2,
       totalCopies |-> 1, availableCopies |-> 1],
      [title |-> <<"b">>, author |-> <<"A">>, isbn |-> NullText,
       genre |-> "science", publicationYear |-> NullYear,
       totalCopies |-> 1, availableCopies |-> 0],
      [title |-> <<"a", "_">>, author |-> <<"b", "B">>, isbn |-> <<"2">>,
       genre |-> "fiction", publicationYear |-> 3,
       totalCopies |-> 2, availableCopies |-> 2]>>

\* Texts a client searches for, and authors it filters by.
SearchTexts == {<<>>, <<"a">>, <<"A", "B">>, <<"2">>}

AuthorTexts == {<<>>, <<"B">>, <<"_">>}

\* Texts a client sends as yearFrom and as yearTo.
YearFromTexts == {<<>>, <<"2">>, <<"x">>}

YearToTexts == {<<>>, <<"0">>, <<"2">>}

SearchRequests ==
    [search : SearchTexts, genre : {"", "fiction", "poetry"},
     author : AuthorTexts, availability : {"", "available", "unavailable"},
     yearFrom : YearFromTexts, yearTo : YearToTexts]

InitSearch ==
    /\ now = 0
    /\ users = SeedUsers
    /\ books = [b \in 1..3 |-> SearchCatalogue[b]]
    /\ nextBookId = 4
    /\ reservations = <<>>
    /\ fines = <<>>
    /\ req = [p \in Procs |-> IdleReq]
    /\ resp = NoResp
    /\ overlapped = FALSE
    /\ session = NoSession
    /\ payments = <<>>
    /\ intents = <<>>
    /\ config \in {[database |-> d, stripe |-> FALSE] : d \in BOOLEAN}

NextSearch == \E q \in SearchRequests : ListBooks(1, q)

SpecSearch == InitSearch /\ [][NextSearch]_vars

(***************************************************************************)
(* SpecRoutes: every route of registerRoutes and of simpleAuth, each with  *)
(* one request, served one at a time over a database that holds fine rows. *)
(***************************************************************************)
InitRoutes ==
    /\ now = 0
    /\ users = [SeedUsers EXCEPT !["alice"].outstandingFines = 500]
    /\ books = [b \in {1} |-> [totalCopies |-> 1, availableCopies |-> 1]]
    /\ nextBookId = 2
    /\ reservations = <<>>
    /\ fines \in SeedFines \ {<<>>}
    /\ req = [p \in Procs |-> IdleReq]
    /\ resp = NoResp
    /\ overlapped = FALSE
    /\ session = NoSession
    /\ payments = <<>>
    /\ intents = <<>>
    /\ config = FullConfig

\* One request to each route, from alice, and from root to the admin routes.
RouteRequests ==
    {<<route, NoId, NoUpdates>> :
        route \in {"authUser", "getReservations", "stats", "listUsers",
                   "listReservations", "login", "logout", "getLogin"}}
    \cup {<<"getBook", 1, NoUpdates>>, <<"reserve", 1, NoUpdates>>,
          <<"putReservation", 1, ReturnBody>>,
          <<"createBook", NoId, [title |-> "t", totalCopies |-> 1, availableCopies |-> 1]>>,
          <<"updateBook", 1, [availableCopies |-> 3]>>,
          <<"deleteBook", 1, NoUpdates>>,
          <<"createPaymentIntent", NoId, [amount |-> 300]>>,
          <<"confirmPayment", 1, NoUpdates>>}

RoutesStep(p) ==
    \/ \E r \in RouteRequests :
          Handler(p, IF r[1] \in AdminOps THEN "root" ELSE "alice", r)
    \/ ReserveCreate(p)
    \/ ReserveUpdateAvailability(p)
    \/ AdminCreateBook(p)
    \/ AdminUpdateBook(p)
    \/ AdminDeleteBook(p)
    \/ AdminList(p)
    \/ CreatePaymentRow(p)
    \/ ConfirmUpdatePayment(p)
    \/ ConfirmGetUser(p)
    \/ ConfirmUpdateUser(p)

NextRoutes == RoutesStep(1)

SpecRoutes == InitRoutes /\ [][NextRoutes]_vars

(***************************************************************************)
(* Properties.                                                             *)
(***************************************************************************)

ActiveOf(rows, u, b) ==
    {i \in DOMAIN rows : /\ rows[i].userId = u
                         /\ rows[i].bookId = b
                         /\ rows[i].status = "active"}

\* C1: POST /api/reservations for a book that does not exist or whose
\* availableCopies is <= 0 is rejected with 400 (the only other answer is
\* the 500 of a failed lookup), the handler ends there, no reservation row
\* is created and no book row changes.
C1_UnavailableRejected ==
    [][\A p \in Procs, u \in Users, b \in AdminBookIds :
          (ReserveGetBook(p, u, b) /\ Unavailable(b))
            => /\ resp'.code \in {400, 500}
               /\ resp'.code = 400 => resp'.body = "message"
               /\ req'[p] = IdleReq
               /\ reservations' = reservations
               /\ books' = books]_vars

\* C1 witness: a reservation request was just answered 400 while every
\* book id is unavailable: the only copy of book 1 is reserved
\* (availableCopies = 0) and no other id has a row.
C1_Witness ==
    /\ resp.op = "reserve" /\ resp.code = 400
    /\ Len(reservations) = 1
    /\ DOMAIN books = {1}
    /\ books[1].availableCopies = 0

\* C2: with requests served one at a time, a POST /api/reservations for a
\* book with availableCopies = N > 0 is not rejected; when no database
\* operation fails it answers 201, the table has grown by exactly one row,
\* that row is active, belongs to the caller and the requested book and is
\* due 14 days after its creation, and the book is left with N - 1 copies,
\* every other book row unchanged.
C2_SingleReservation ==
    [][\A p \in Procs :
          /\ \A u \in Users, b \in 1..3 :
                 (~Unavailable(b) /\ ReserveGetBook(p, u, b) /\ resp'.code # 500)
                   => /\ resp'.code = 0
                      /\ req'[p].pc = "createReservation"
                      /\ req'[p].book.availableCopies = books[b].availableCopies
                      /\ db' = db
          /\ (ReserveCreate(p) /\ resp'.code # 500)
               => /\ resp'.code = 0
                  /\ req'[p].pc = "updateBookAvailability"
                  /\ books' = books
          /\ (ReserveUpdateAvailability(p) /\ resp'.code # 500)
               => LET r == req[p]
                      N == r.book.availableCopies
                  IN  /\ resp'.code = 201 /\ resp'.body = "reservation"
                      /\ N > 0
                      /\ Len(reservations') = r.nres + 1
                      /\ reservations'[r.nres + 1] =
                             [userId |-> r.user, bookId |-> r.bookId,
                              status |-> "active", reservedAt |-> now,
                              dueDate |-> now + 14, completedAt |-> NoTime]
                      /\ books'[r.bookId].availableCopies = N - 1
                      /\ \A b \in DOMAIN books \ {r.bookId} : books'[b] = books[b]
                      /\ DOMAIN books' = DOMAIN books]_vars

\* C2 witness: the first reservation of book 2 (two copies) was just
\* answered 201: one active row due on day 14, one copy left.
C2_Witness ==
    /\ resp.op = "reserve" /\ resp.code = 201
    /\ Len(reservations) = 1
    /\ reservations[1].status = "active" /\ reservations[1].bookId = 2
    /\ reservations[1].dueDate = reservations[1].reservedAt + 14
    /\ books[2].availableCopies = 1

\* C3: PUT /api/reservations/:id that marks an active reservation
\* completed restores the reserved book's availableCopies by 1.
C3_ReturnRestoresCopy ==
    [][\A p \in Procs, id \in 1..MaxReservations :
          (/\ PutReservation(p, "alice", id, ReturnBody)
           /\ resp'.code = 200
           /\ id \in DOMAIN reservations
           /\ reservations[id].status = "active")
            => books'[reservations[id].bookId].availableCopies
                 = books[reservations[id].bookId].availableCopies + 1]_vars

Raced(q) ==
    /\ req[q].op = "reserve"
    /\ req[q].bookId \in DOMAIN books
    /\ \/ books[req[q].bookId].availableCopies # req[q].book.availableCopies
       \/ \E p \in Procs \ {q} :
              /\ req[p].op = "reserve"
              /\ req[p].bookId = req[q].bookId
              /\ req[p].book.availableCopies = req[q].book.availableCopies

\* C5: nothing serializes two POST /api/reservations for the last copy: a
\* request that read availableCopies = 1 and whose check is out of date
\* (the other request read the same 1, or has already written 0) still
\* inserts its active row and still answers 201, leaving availableCopies
\* at 0.
C5_LastCopyRace ==
    [][\A q \in Procs :
          (Raced(q) /\ req[q].book.availableCopies = 1)
            => /\ (ReserveCreate(q) /\ resp'.code # 500)
                    => /\ Len(reservations') = Len(reservations) + 1
                       /\ reservations'[Len(reservations')].status = "active"
                       /\ reservations'[Len(reservations')].bookId = req[q].bookId
                       /\ req'[q].pc = "updateBookAvailability"
               /\ (ReserveUpdateAvailability(q) /\ resp'.code # 500)
                    => /\ resp'.code = 201
                       /\ reservations' = reservations
                       /\ books'[req[q].bookId].availableCopies = 0]_vars

\* C5 witness: book 1 has one copy; two requests overlapped, both were
\* served, and the table holds two active reservations of book 1 while
\* availableCopies is 0.
C5_Witness ==
    /\ overlapped /\ InFlight = {}
    /\ resp.op = "reserve" /\ resp.code = 201
    /\ books[1].totalCopies = 1 /\ books[1].availableCopies = 0
    /\ Len(reservations) = 2
    /\ \A i \in DOMAIN reservations :
           reservations[i].bookId = 1 /\ reservations[i].status = "active"

\* C6: when the second write of POST /api/reservations rejects, the handler
\* answers 500 and compensates nothing: the reservation row it inserted is
\* still there, unchanged, and availableCopies is not decremented.
C6_NoCompensation ==
    [][\A p \in Procs :
          (ReserveUpdateAvailability(p) /\ resp'.code # 201)
            => /\ resp'.code = 500 /\ resp'.body = "message"
               /\ req[p].rid \in DOMAIN reservations'
               /\ reservations' = reservations
               /\ reservations'[req[p].rid].bookId = req[p].bookId
               /\ books' = books]_vars

\* C6 witness: a request was answered 500, none is in flight, the table
\* holds one active reservation of book 1 and book 1 still has its copy.
C6_Witness ==
    /\ resp.op = "reserve" /\ resp.code = 500
    /\ InFlight = {}
    /\ Len(reservations) = 1
    /\ reservations[1].bookId = 1 /\ reservations[1].status = "active"
    /\ books[1].availableCopies = books[1].totalCopies

\* C7: POST /api/reservations is not idempotent: a request of a user who
\* already holds an active reservation of the same book is served like the
\* first one: it passes the check, adds one more active row for that user
\* and book, and (when no other request has overlapped) decrements
\* availableCopies once more.
C7_NotIdempotent ==
    [][\A p \in Procs :
          /\ \A u \in Users, b \in DOMAIN books :
                 (/\ ActiveOf(reservations, u, b) # {}
                  /\ books[b].availableCopies > 0
                  /\ ReserveGetBook(p, u, b)
                  /\ resp'.code # 500)
                   => req'[p].pc = "createReservation"
          /\ (/\ ReserveCreate(p)
              /\ ActiveOf(reservations, req[p].user, req[p].bookId) # {}
              /\ resp'.code # 500)
               => Cardinality(ActiveOf(reservations', req[p].user, req[p].bookId))
                    = Cardinality(ActiveOf(reservations, req[p].user, req[p].bookId)) + 1
          /\ (/\ ReserveUpdateAvailability(p)
              /\ Cardinality(ActiveOf(reservations, req[p].user, req[p].bookId)) > 1
              /\ ~overlapped
              /\ resp'.code # 500)
               => /\ resp'.code = 201
                  /\ books'[req[p].bookId].availableCopies
                       = books[req[p].bookId].availableCopies - 1]_vars

\* C7 witness: the same user reserved book 2 twice, one request after the
\* other: two active rows of that user and book, and availableCopies went
\* from 2 to 0.
C7_Witness ==
    /\ ~overlapped
    /\ resp.op = "reserve" /\ resp.code = 201
    /\ Cardinality(ActiveOf(reservations, "alice", 2)) = 2
    /\ books[2].availableCopies = 0

\* C8: the dashboard's dueSoon for a user is the number of that user's
\* reservations that are active and due between now and now + 3 days, both
\* ends included; completed and cancelled rows, other users' rows, overdue
\* rows and rows due later are not counted.
C8_DueSoonCount ==
    [][\A p \in Procs, u \in Users :
          (DashboardStats(p, u) /\ resp'.code = 200)
            => resp'.stats.dueSoon =
                 Cardinality({i \in DOMAIN reservations :
                                 /\ reservations[i].userId = u
                                 /\ reservations[i].status = "active"
                                 /\ reservations[i].dueDate >= now
                                 /\ reservations[i].dueDate - now <= 3})]_vars

\* C8 witness: the dashboard just reported one reservation due soon, an
\* active one due in exactly 3 days.
C8_Witness ==
    /\ resp.op = "stats" /\ resp.code = 200
    /\ resp.stats.dueSoon = 1
    /\ Len(reservations) = 1
    /\ reservations[1].status = "active"
    /\ reservations[1].dueDate = now + 3

\* C9: the dashboard's outstandingFines for a user equals the balance
\* stored in the user's row, whatever fine rows exist.
C9_FinesAreStoredBalance ==
    [][\A p \in Procs, u \in Users :
          (DashboardStats(p, u) /\ resp'.code = 200)
            => resp'.stats.outstandingFines = StoredBalance(u)]_vars

\* C10: an admin-only endpoint called by a user whose stored role is not
\* 'admin', or who has no user row, answers 403 (500 if the user lookup itself fails), ends there,
\* writes nothing and returns no admin data; no admin storage operation is
\* ever awaited on behalf of such a user.
C10_AdminOnly ==
    [][\A p \in Procs :
          /\ \A u \in {v \in Callers : GetUser(v).role # "admin"}, r \in AdminRequests :
                 AdminGetUser(p, u, r[1], r[2], r[3])
                   => /\ resp'.code \in {403, 500}
                      /\ resp'.body = "message"
                      /\ req'[p] = IdleReq
                      /\ db' = db
          /\ req'[p].pc \in AdminOps => GetUser(req'[p].user).role = "admin"]_vars

\* C10 witness: an admin endpoint was just answered 403.
C10_Witness ==
    /\ resp.op \in AdminOps /\ resp.code = 403 /\ resp.body = "message"
    /\ InFlight = {}

\* The database and the payments table: everything a handler can write.
store == <<db, payments>>

\* This step starts a request to the route in slot p: the slot was free,
\* and the step answers the route or awaits for it.
Arrived(p, route) == Free(p) /\ (resp'.op = route \/ req'[p].op = route)

\* C11 as stated: every route except GET /api/books and GET /api/books/:id
\* answers a request without a session with 401 and changes nothing.
C11_AllButBooksGuarded ==
    [][\A p \in Procs, route \in (GuardedRoutes \cup OpenRoutes) \ {"listBooks", "getBook"} :
          (session = NoSession /\ Arrived(p, route))
            => resp'.code = 401 /\ store' = store]_vars

\* C11 amended: every route registered with the auth middleware answers a
\* request without a session user with 401 "Unauthorized" and does not run
\* its handler: no storage operation is awaited and nothing is written;
\* GET /api/auth/user is one of them.  The routes registered without the
\* middleware (GET /api/books/:id, POST /api/login, GET /api/logout) and
\* the fall-through GET /api/login are never answered 401.
C11_GuardedRoutesReject ==
    [][\A p \in Procs :
          /\ \A route \in GuardedRoutes :
                 (session = NoSession /\ Arrived(p, route))
                   => /\ resp'.op = route
                      /\ resp'.code = 401 /\ resp'.body = "Unauthorized"
                      /\ req'[p] = IdleReq
                      /\ store' = store
                      /\ session' = session /\ intents' = intents
          /\ \A route \in OpenRoutes :
                 Arrived(p, route) => resp'.code # 401]_vars

\* C11 witness: GET /api/auth/user was just answered 401 "Unauthorized";
\* there is no session and the database is as it was seeded.
C11_Witness ==
    /\ resp.op = "authUser" /\ resp.code = 401 /\ resp.body = "Unauthorized"
    /\ session = NoSession
    /\ users = SeedUsers /\ reservations = <<>> /\ payments = <<>>

\* C12: a session created by the demo login at time t expires at t + 7
\* days; a request to a guarded route that carries a session is let
\* through exactly when now <= exp and is answered 401 "Session expired"
\* when now > exp, with nothing written; no request to a guarded route
\* changes the session (no sliding expiry), an expired session is left in
\* place, and only login and logout ever change it.
C12_ExpiryComparison ==
    [][\A p \in Procs :
          /\ \A route \in GuardedRoutes :
                 (session # NoSession /\ Arrived(p, route))
                   => /\ now <= session.exp => resp'.code # 401
                      /\ now > session.exp
                           => /\ resp'.code = 401
                              /\ resp'.body = "Session expired"
                              /\ req'[p] = IdleReq
                              /\ store' = store
                      /\ session' = session
          /\ (resp'.op = "login" /\ resp'.code = 200)
               => session' = [sub |-> DemoUser, exp |-> now + 7]
          /\ session' # session => resp'.op \in {"login", "logout"}]_vars

\* C12 witness: a request was just answered 401 "Session expired" on the
\* first day after the expiry, and the session of the demo user is still
\* there, its expiry the one set at login on day 0.
C12_Witness ==
    /\ resp.code = 401 /\ resp.body = "Session expired"
    /\ session = [sub |-> DemoUser, exp |-> 7]
    /\ now = session.exp + 1

(***************************************************************************)
(* Payments.                                                               *)
(***************************************************************************)
PaymentRoutes == {"createPaymentIntent", "confirmPayment"}

\* C13: without a processor key, POST /api/create-payment-intent and POST
\* /api/payment/confirm answer 503 at once: the handler reaches no storage
\* call, so no payment row is created or updated, no balance changes and
\* the processor is not asked for an intent.
C13_NoProcessorNoPayment ==
    [][\A p \in Procs, route \in PaymentRoutes :
          (~config.stripe /\ Arrived(p, route))
            => /\ resp'.op = route /\ resp'.code = 503
               /\ req'[p] = IdleReq
               /\ store' = store
               /\ intents' = intents]_vars

C13_Witness ==
    /\ ~config.stripe
    /\ resp.op = "confirmPayment" /\ resp.code = 503
    /\ payments = <<>> /\ intents = <<>>
    /\ users["alice"].outstandingFines = 500

\* The step on which a confirmation that found its payment row answers.
ConfirmAnswers(p) ==
    /\ req[p].op = "confirmPayment" /\ req[p].pc = "updateUser"
    /\ resp'.op = "confirmPayment" /\ resp'.code = 200

C16_NoFineCreated ==
    [][/\ fines' = fines
       /\ \A u \in Users : GetTotalFinesOf(fines', u) = GetTotalFinesOf(fines, u)]_vars

C16_Witness ==
    /\ Len(fines) = 3 /\ GetTotalFines("alice") = 500
    /\ Len(reservations) = 1 /\ reservations[1].status = "completed"
    /\ Len(payments) = 1 /\ payments[1].status = "completed"
    /\ users["alice"].outstandingFines = 200
    /\ nextBookId = 3
    /\ session.sub = DemoUser
    /\ resp.op = "stats" /\ resp.code = 200
    /\ resp.stats.outstandingFines = 500

(***************************************************************************)
(* The catalogue's copy counts.                                            *)
(***************************************************************************)
\* C17: an admin's POST /api/books is accepted with any copy counts its
\* body carries, and the row stored has them; an admin's PUT /api/books/:id
\* stores the availableCopies of its body, negative or above totalCopies,
\* and leaves totalCopies alone.
C17_CopiesNotEnforced ==
    [][\A p \in Procs :
          /\ \A data \in ValidBookBodies :
                 (Free(p) /\ nextBookId <= MaxBooks)
                   => ENABLED (/\ AdminGetUser(p, "root", "createBook", NoId, data)
                               /\ req'[p].pc = "createBook")
          /\ (req[p].pc = "createBook" /\ resp'.code = 201)
               => /\ books'[nextBookId].availableCopies = req[p].upd.availableCopies
                  /\ books'[nextBookId].totalCopies = req[p].upd.totalCopies
          /\ (req[p].pc = "updateBook" /\ resp'.code = 200 /\ resp'.body = "book")
               => /\ books'[req[p].bookId].availableCopies = req[p].upd.availableCopies
                  /\ books'[req[p].bookId].totalCopies = books[req[p].bookId].totalCopies]_vars

C17_Witness ==
    /\ resp.op = "updateBook" /\ resp.code = 200
    /\ DOMAIN books = {1, 2}
    /\ books[1].availableCopies < 0
    /\ books[2].availableCopies > books[2].totalCopies

(***************************************************************************)
(* Catalogue search.                                                       *)
(***************************************************************************)
\* C18: a deployment without DATABASE_URL answers GET /api/books with 200
\* and the books it holds, not with an error.
C18_MockModeServesBooks ==
    (~config.database /\ resp.op = "listBooks") => resp.code = 200

\* The text contains the query, compared without regard to case.
ContainsText(text, query) ==
    /\ text # NullText
    /\ \E i \in 0..(Len(text) - Len(query)) :
          \A j \in 1..Len(query) : Lower(text[i + j]) = Lower(query[j])

\* The row satisfies the filters the request supplies, each read as C20
\* states it; a year that is not a number supplies no filter.
SatisfiesFilters(row, q) ==
    /\ q.search # <<>>
         => \/ ContainsText(row.title, q.search)
            \/ ContainsText(row.author, q.search)
            \/ ContainsText(row.isbn, q.search)
    /\ q.genre # "" => row.genre = q.genre
    /\ q.author # <<>> => ContainsText(row.author, q.author)
    /\ q.availability = "available" => row.availableCopies > 0
    /\ q.availability = "unavailable" => row.availableCopies = 0
    /\ ParseInt(q.yearFrom).kind = "number"
         => /\ row.publicationYear # NullYear
            /\ row.publicationYear >= ParseInt(q.yearFrom).value
    /\ ParseInt(q.yearTo).kind = "number"
         => /\ row.publicationYear # NullYear
            /\ row.publicationYear <= ParseInt(q.yearTo).value

C19_GetLoginAuthenticates ==
    <>(session.sub = DemoUser /\ AuthVerdict(session, now) = "next")

(***************************************************************************)
(* Availability under concurrent reservation requests.                     *)
(***************************************************************************)
\* The slots whose request has passed the availability check and has not
\* yet written the count.
PastCheck == {p \in Procs : req[p].pc \in {"createReservation", "updateBookAvailability"}}

\* C21: under every interleaving of POST and PUT reservation requests, no
\* book's availableCopies is ever negative: a request that has passed the
\* check holds a value read that is > 0, and that value minus one is what
\* it writes.
C21_NeverNegative ==
    /\ \A b \in DOMAIN books : books[b].availableCopies >= 0
    /\ \A p \in PastCheck : req[p].book.availableCopies > 0

\* C21 witness: requests have overlapped, every copy of both books is
\* reserved, and both counts are 0.
C21_Witness ==
    /\ overlapped /\ InFlight = {}
    /\ Len(reservations) = 3
    /\ books[1].availableCopies = 0 /\ books[2].availableCopies = 0

\* The step on which slot p's POST /api/reservations writes the count and
\* answers 201.
ReserveAnswers(p) ==
    /\ req[p].op = "reserve" /\ req[p].pc = "updateBookAvailability"
    /\ req'[p] = IdleReq
    /\ resp'.op = "reserve" /\ resp'.code = 201

\* C22: the decrement is an absolute write of (the value read) - 1: a
\* request whose read is out of date still answers 201 and sets the count
\* to its own read minus one, whatever the count is by then, so a
\* decrement another request made in between is not added to it.
C22_StaleAbsoluteWrite ==
    [][\A p \in Procs :
          ReserveAnswers(p)
            => LET b == req[p].bookId
                   N == req[p].book.availableCopies
               IN  /\ books'[b].availableCopies = N - 1
                   /\ books[b].availableCopies = N - 1
                        => books'[b].availableCopies = books[b].availableCopies
                   /\ reservations' = reservations]_vars

\* C22 witness: two requests for book 2 overlapped, both read 2 and both
\* were answered 201: two active reservations of book 2, and its count
\* went from 2 to 1.
C22_Witness ==
    /\ overlapped /\ InFlight = {}
    /\ resp.op = "reserve" /\ resp.code = 201
    /\ Len(reservations) = 2
    /\ \A i \in DOMAIN reservations :
           reservations[i].bookId = 2 /\ reservations[i].status = "active"
    /\ books[2].totalCopies = 2 /\ books[2].availableCopies = 1

(***************************************************************************)
(* Copies and reservation rows, one request at a time.                     *)
(***************************************************************************)
\* The reservation rows of a book, in any status.
RowsOf(rows, b) == {i \in DOMAIN rows : rows[i].bookId = b}

\* The requests for book b that have inserted their row and have not yet
\* written the count.
BetweenWrites(b) ==
    {p \in Procs : req[p].pc = "updateBookAvailability" /\ req[p].bookId = b}

\* availableCopies plus the rows of the book; a row whose request has not
\* yet written the count is not counted.
Accounted(b) ==
    books[b].availableCopies + Cardinality(RowsOf(reservations, b))
      - Cardinality(BetweenWrites(b))

MaxPutReservations == 1

\* A body that overwrites the columns of the row: req.body is passed to
\* the storage layer as it is.
OverwriteBody == [status |-> "active", userId |-> "alice", bookId |-> 1, dueDate |-> 0]

PutBodies == StatusBodies \cup {ReturnBody, OverwriteBody}

PutStep(p) ==
    \/ \E u \in Users, b \in DOMAIN SeedBooks :
           Insertable(MaxPutReservations, b) /\ ReserveGetBook(p, u, b)
    \/ ReserveCreate(p)
    \/ ReserveUpdateAvailability(p)
    \/ \E id \in 1..MaxPutReservations, updates \in PutBodies :
           PutReservation(p, "alice", id, updates)

NextPut == PutStep(1)

SpecPut == Init /\ [][NextPut]_vars

(***************************************************************************)
(* PUT /api/reservations/:id.                                              *)
(***************************************************************************)
\* The row has the columns of the body.
HasColumns(row, updates) == \A f \in DOMAIN updates : row[f] = updates[f]

\* C24: PUT /api/reservations/:id checks neither owner nor role: for a
\* reservation whose userId is another user, the request of any user can
\* be served with 200 and the body applied to the row; the route never
\* answers 403.
C24_NoOwnershipCheck ==
    [][\A p \in Procs :
          /\ \A u \in Users, id \in DOMAIN reservations, updates \in PutBodies :
                 (Free(p) /\ reservations[id].userId # u)
                   => ENABLED (/\ PutReservation(p, u, id, updates)
                               /\ resp'.code = 200
                               /\ HasColumns(reservations'[id], updates))
          /\ (Free(p) /\ resp'.op = "putReservation") => resp'.code \in {200, 500}]_vars

\* C24 witness: a reservation made by root (its userId never overwritten:
\* the overwriting body sets alice) was cancelled by a PUT, and alice is
\* the only user who sends PUTs.
C24_Witness ==
    /\ resp.op = "putReservation" /\ resp.code = 200
    /\ Len(reservations) = 1
    /\ reservations[1].userId = "root"
    /\ reservations[1].status = "cancelled"

\* C25: the status of a reservation can be set from any value to any
\* value: a PUT on a completed or cancelled reservation can be served with
\* 200, the row then has the body's columns (status 'active' again,
\* bookId, userId, dueDate overwritten), and the request changes no book
\* row, whatever the availableCopies of the books are.
C25_UnrestrictedTransitions ==
    [][\A p \in Procs :
          /\ \A id \in DOMAIN reservations, updates \in PutBodies :
                 (Free(p) /\ reservations[id].status \in {"completed", "cancelled"})
                   => ENABLED (/\ PutReservation(p, "alice", id, updates)
                               /\ resp'.code = 200
                               /\ HasColumns(reservations'[id], updates)
                               /\ books' = books)
          /\ (Free(p) /\ resp'.op = "putReservation")
               => /\ books' = books
                  /\ Len(reservations') = Len(reservations)]_vars

\* C25 witness: the only copy of book 1 was reserved (availableCopies 0),
\* the reservation was completed and then set back to active by the body
\* that also overwrites userId, bookId and dueDate; availableCopies of
\* book 1 is still 0 and book 2 is untouched.
C25_Witness ==
    /\ resp.op = "putReservation" /\ resp.code = 200
    /\ Len(reservations) = 1
    /\ reservations[1].status = "active" /\ reservations[1].completedAt # NoTime
    /\ reservations[1].bookId = 1 /\ reservations[1].userId = "alice"
    /\ reservations[1].dueDate = 0
    /\ books[1].totalCopies = 1 /\ books[1].availableCopies = 0
    /\ books[2].availableCopies = books[2].totalCopies

(***************************************************************************)
(* Payment confirmation: repetition, the floor, and the caller's rows.     *)
(***************************************************************************)
\* C26: POST /api/payment/confirm does not look at the payment's status: a
\* confirmation of a payment that is already completed is taken up like
\* the first one, sets the row completed again, reads the balance and
\* writes max(0, balance - amount): the amount is subtracted once more.
C26_ConfirmNotIdempotent ==
    [][\A p \in Procs :
          /\ \A id \in DOMAIN payments :
                 (config.stripe /\ Free(p) /\ payments[id].status = "completed")
                   => ENABLED (/\ ConfirmPayment(p, payments[id].userId,
                                                 payments[id].stripePaymentIntentId)
                               /\ req'[p].pc = "updatePayment"
                               /\ req'[p].rid = id)
          /\ (/\ req[p].pc = "updatePayment"
              /\ payments[req[p].rid].status = "completed"
              /\ resp'.code # 500)
               => /\ req'[p].pc = "getUser"
                  /\ payments'[req[p].rid].status = "completed"
          /\ (req[p].pc = "getUser" /\ resp'.code # 500)
               => /\ req'[p].pc = "updateUser"
                  /\ req'[p].payment.balance = users[req[p].user].outstandingFines
          /\ (req[p].pc = "updateUser" /\ resp'.code # 500)
               => /\ resp'.code = 200
                  /\ users'[req[p].user].outstandingFines =
                         Max0(req[p].payment.balance - payments[req[p].rid].amount)]_vars

\* C26 witness: alice owed 500 and has one payment, of 300; it was
\* confirmed twice: 500 - 300 = 200, then max(0, 200 - 300) = 0.
C26_Witness ==
    /\ resp.op = "confirmPayment" /\ resp.code = 200
    /\ Len(payments) = 1
    /\ payments[1].userId = "alice" /\ payments[1].amount = 300
    /\ payments[1].status = "completed"
    /\ users["alice"].outstandingFines = 0

\* C27: no user's outstandingFines is ever negative; a payment intent is
\* accepted for an amount above the user's balance, and a confirmation of
\* a payment above the balance leaves the balance at exactly 0.
C27_BalanceFloorZero ==
    [][/\ \A u \in DOMAIN users :
              users[u].outstandingFines >= 0 /\ users'[u].outstandingFines >= 0
       /\ \A p \in Procs, u \in Users, amount \in Amounts :
              (/\ config.stripe /\ Free(p) /\ Len(intents) < MaxIntents
               /\ amount > users[u].outstandingFines)
                => ENABLED (/\ CreatePaymentIntent(p, u, amount)
                            /\ req'[p].pc = "createPayment"
                            /\ req'[p].payment.amount = amount)
       /\ \A p \in Procs :
              (/\ ConfirmAnswers(p)
               /\ payments[req[p].rid].amount > users[req[p].user].outstandingFines)
                => users'[req[p].user].outstandingFines = 0]_vars

\* C27 witness: alice owed 500, paid 700 in one payment, and owes 0.
C27_Witness ==
    /\ resp.op = "confirmPayment" /\ resp.code = 200
    /\ Len(payments) = 1
    /\ payments[1].userId = "alice" /\ payments[1].amount = 700
    /\ payments[1].status = "completed"
    /\ users["alice"].outstandingFines = 0

\* The caller has no payment row with this paymentIntentId.
NoRowOf(u, paymentIntentId) ==
    \A id \in DOMAIN payments :
       payments[id].userId # u \/ payments[id].stripePaymentIntentId # paymentIntentId

\* C28: a confirmation whose paymentIntentId matches no payment row of the
\* caller (an unknown id, or another user's) is answered 200 {success:
\* true} (500 if the lookup fails) and changes nothing; and a confirmation
\* in progress writes only payment rows of its caller and the balance of
\* its caller.
C28_OnlyCallersRows ==
    [][\A p \in Procs :
          /\ \A u \in Users, i \in 1..UnknownIntent :
                 (config.stripe /\ NoRowOf(u, i) /\ ConfirmPayment(p, u, i))
                   => /\ resp'.code \in {200, 500}
                      /\ resp'.code = 200 => resp'.body = "success"
                      /\ req'[p] = IdleReq
                      /\ store' = store
          /\ req[p].op = "confirmPayment"
               => /\ \A id \in DOMAIN payments :
                         payments[id].userId # req[p].user => payments'[id] = payments[id]
                  /\ \A v \in DOMAIN users \ {req[p].user} : users'[v] = users[v]
                  /\ DOMAIN payments' = DOMAIN payments]_vars

\* C28 witness: alice has one payment, still pending, and her balance is
\* untouched, after a confirmation was answered 200: it named an id that
\* is not hers, or it was root's.
C28_Witness ==
    /\ resp.op = "confirmPayment" /\ resp.code = 200 /\ resp.body = "success"
    /\ Len(payments) = 1
    /\ payments[1].userId = "alice" /\ payments[1].status = "pending"
    /\ users["alice"].outstandingFines = 500
    /\ users["root"].outstandingFines = 0

=============================================================================
